---- MODULE Spec2Model ----
\* Answer evaluation, question-submission rewards and progress propagation
\* of the e-learning backend (questions/views.py, lessons/views.py).
\* One authenticated user; every request below is issued by that user.
EXTENDS Integers, Sequences, FiniteSets, TLC

VARIABLES
    now,        \* current calendar day (timezone.now() / timezone.localdate())
    user,       \* the CustomUser row of request.user
    attempts,   \* UserQuestionAttempt table, rows in insertion order
    xpLedger,   \* UserXP table, rows in insertion order
    jemLedger,  \* UserJem table, rows in insertion order
    last,       \* the last request handled and its response
    workers,    \* request workers with a submission transaction in progress
    slideProgress,  \* UserSlideProgress rows of the user, by slide
    lessonProgress, \* UserLessonProgress rows of the user, by lesson
    enrollment,     \* UserCourseEnrollment rows of the user, by course
    reviews,        \* LessonReview rows of the user, by id (1, 2, ...)
    reviewAttempts  \* LessonReviewQuestionAttempt table, in insertion order

vars == <<now, user, attempts, xpLedger, jemLedger, last, workers,
          slideProgress, lessonProgress, enrollment, reviews, reviewAttempts>>

\* the tables of the progress chain / of question submission
progressVars == <<slideProgress, lessonProgress, enrollment>>
submitVars == <<attempts, jemLedger, workers>>
reviewVars == <<reviews, reviewAttempts>>

\* ---------------------------------------------------------------- bounds
MaxDay == 2
MaxAttempts == 3
MaxConcAttempts == 3
MaxLen == 3
MaxTx == 4
MaxReviews == 1
\* the reviews started where only starting is exercised
MaxStartedReviews == 2
MaxReviewAttempts == 3
MaxKeys == 2

\* ------------------------------------------------------------- constants
NULL == -1          \* a NULL DateTimeField
MinXp == 10
MinJems == 1

\* --------------------------------------------------------------- helpers
RECURSIVE SumAmounts(_)
SumAmounts(rows) ==
    IF rows = <<>> THEN 0 ELSE Head(rows).amount + SumAmounts(Tail(rows))

Max(a, b) == IF a >= b THEN a ELSE b

SeqToSet(s) == {s[i] : i \in 1..Len(s)}

\* list.insert into an ascending list, then sorted() by repeated insertion
RECURSIVE InsertSorted(_, _)
InsertSorted(x, s) ==
    IF s = <<>> THEN <<x>>
    ELSE IF x <= Head(s) THEN <<x>> \o s
    ELSE <<Head(s)>> \o InsertSorted(x, Tail(s))

RECURSIVE Sorted(_)
Sorted(s) == IF s = <<>> THEN <<>> ELSE InsertSorted(Head(s), Sorted(Tail(s)))

\* ------------------------------------------------- JSON request payloads
\* A JSON scalar is an atom: Num(s) the number written s, Str(s) the string s.
\* A payload is [t |-> "list", v |-> sequence of atoms],
\* [t |-> "dict", v |-> sequence of <<key string, value payload>> in the
\* order of the JSON object] or [t |-> "atom", v |-> atom].
Num(s) == [s |-> s, num |-> TRUE]
Str(s) == [s |-> s, num |-> FALSE]

JList(s) == [t |-> "list", v |-> s]
JDict(s) == [t |-> "dict", v |-> s]
JAtom(a) == [t |-> "atom", v |-> a]

\* int(s) of a Python string: the integer, or NULL when int() raises
ParseInt(s) ==
    CASE s = "0" -> 0    [] s = "1" -> 1    [] s = "2" -> 2
      [] s = "5" -> 5    [] s = "7" -> 7
      [] s = "10" -> 10  [] s = "11" -> 11  [] s = "12" -> 12
      [] s = "20" -> 20  [] s = "21" -> 21  [] s = "22" -> 22
      [] s = "31" -> 31  [] s = "32" -> 32  [] s = "33" -> 33
      [] OTHER -> NULL

\* str(n) of an id
FormatInt(n) ==
    CASE n = 0 -> "0"    [] n = 1 -> "1"    [] n = 2 -> "2"
      [] n = 5 -> "5"    [] n = 7 -> "7"
      [] n = 10 -> "10"  [] n = 11 -> "11"  [] n = 12 -> "12"
      [] n = 20 -> "20"  [] n = 21 -> "21"  [] n = 22 -> "22"
      [] n = 31 -> "31"  [] n = 32 -> "32"  [] n = 33 -> "33"

\* int(a) and str(a) of a JSON scalar
IntOf(a) == ParseInt(a.s)
StrOf(a) == a.s

\* a lower() that leaves the string as it is
Lower_keeps_case(s) ==
    s

\* str.lower()
Lower(s) ==
    CASE s = "Paris" -> "paris"
      [] s = "PARIS" -> "paris"
      [] s = "Rome" -> "rome"
      [] s = "Roma" -> "roma"
      [] OTHER -> s

\* ----------------------------------------------------- question catalog
\* Question rows with their variant rows (multi-table inheritance).
Questions ==
    [ q1 |-> [type |-> "multiple_choice", xp_available |-> 50, jems |-> 10,
              is_multiple_selection |-> TRUE,
              choices |-> {[id |-> 1, is_correct |-> FALSE],
                           [id |-> 2, is_correct |-> TRUE],
                           [id |-> 5, is_correct |-> TRUE]}],
      q2 |-> [type |-> "multiple_choice", xp_available |-> 15, jems |-> 1,
              is_multiple_selection |-> FALSE,
              choices |-> {[id |-> 1, is_correct |-> TRUE],
                           [id |-> 2, is_correct |-> FALSE]}],
      q3 |-> [type |-> "fill_blank", xp_available |-> 30, jems |-> 3,
              case_sensitive |-> FALSE,
              answers |-> <<[blank_index |-> 0, text |-> "paris"],
                            [blank_index |-> 1, text |-> "Rome"],
                            [blank_index |-> 1, text |-> "roma"]>>],
      q4 |-> [type |-> "drag_drop", xp_available |-> 5, jems |-> 0,
              mappings |-> <<[target |-> 10, draggable_item |-> 20],
                             [target |-> 10, draggable_item |-> 21],
                             [target |-> 11, draggable_item |-> 22]>>],
      q5 |-> [type |-> "reorder", xp_available |-> 50, jems |-> 10,
              reorder_items |-> {[id |-> 31, correct_position |-> 2],
                                 [id |-> 32, correct_position |-> 1],
                                 [id |-> 33, correct_position |-> 3]}],
      q6 |-> [type |-> "fill_blank", xp_available |-> 30, jems |-> 3,
              case_sensitive |-> TRUE,
              answers |-> <<[blank_index |-> 0, text |-> "paris"],
                            [blank_index |-> 1, text |-> "Rome"],
                            [blank_index |-> 1, text |-> "roma"]>>] ]

QuestionIds == DOMAIN Questions
\* the lesson ids sent with question submissions
SubmitLessonIds == {1}

\* ------------------------------------------- course / lesson / slide catalog
Courses == [c1 |-> [is_published |-> TRUE]]

Lessons ==
    [l1 |-> [course |-> "c1", is_published |-> TRUE, xp_available |-> 100],
     l2 |-> [course |-> "c1", is_published |-> TRUE, xp_available |-> 100],
     l3 |-> [course |-> "c1", is_published |-> FALSE, xp_available |-> 100]]

Slides ==
    [s1 |-> [lesson |-> "l1", is_required |-> TRUE],
     s2 |-> [lesson |-> "l1", is_required |-> TRUE],
     s3 |-> [lesson |-> "l2", is_required |-> TRUE],
     s4 |-> [lesson |-> "l3", is_required |-> TRUE]]

CourseIds == DOMAIN Courses
LessonIds == DOMAIN Lessons
SlideIds == DOMAIN Slides

CourseXp == 500

\* rows that do not exist, and the column defaults of rows that do
NoSlideRow == [exists |-> FALSE, is_completed |-> FALSE, xp_earned |-> 0,
               completed_at |-> NULL]
NewSlideRow == [NoSlideRow EXCEPT !.exists = TRUE]

NoLessonRow == [exists |-> FALSE, completion_percentage |-> 0,
                xp_earned |-> 0, completed_date |-> NULL]
NewLessonRow == [NoLessonRow EXCEPT !.exists = TRUE]

NoEnrollment == [exists |-> FALSE, completion_percentage |-> 0,
                 is_completed |-> FALSE]
NewEnrollment == [NoEnrollment EXCEPT !.exists = TRUE]

\* MultipleChoiceQuestion.get_correct_choices, ids in primary-key order
RECURSIVE SetToSortedSeq(_)
SetToSortedSeq(S) ==
    IF S = {} THEN <<>>
    ELSE LET m == CHOOSE x \in S : \A y \in S : x <= y
         IN <<m>> \o SetToSortedSeq(S \ {m})

get_correct_choices(q) ==
    SetToSortedSeq({c.id : c \in {c \in q.choices : c.is_correct}})

\* FillBlankQuestion.get_correct_answers: blank index -> accepted strings
get_correct_answers(q) ==
    [idx \in {q.answers[i].blank_index : i \in 1..Len(q.answers)} |->
        {q.answers[i].text :
            i \in {j \in 1..Len(q.answers) : q.answers[j].blank_index = idx}}]

\* DragDropQuestion.get_correct_mappings: str(target id) -> str(item id)s
get_correct_mappings(q) ==
    [tgt \in {FormatInt(q.mappings[i].target) : i \in 1..Len(q.mappings)} |->
        {FormatInt(q.mappings[i].draggable_item) :
            i \in {j \in 1..Len(q.mappings) :
                      FormatInt(q.mappings[j].target) = tgt}}]

\* ReorderQuestion.get_correct_order: str(id)s ordered by correct_position
RECURSIVE OrderByPosition(_)
OrderByPosition(items) ==
    IF items = {} THEN <<>>
    ELSE LET m == CHOOSE x \in items :
                    \A y \in items : x.correct_position <= y.correct_position
         IN <<FormatInt(m.id)>> \o OrderByPosition(items \ {m})

get_correct_order(q) == OrderByPosition(q.reorder_items)

\* ------------------------------------------------------ answer evaluator
\* Each validator returns [ok |-> is_correct, message |-> feedback message,
\* raised |-> an exception left the validator].
Verdict(ok, msg) == [ok |-> ok, message |-> msg, raised |-> FALSE]
Raised(msg) == [ok |-> FALSE, message |-> msg, raised |-> TRUE]

validate_multiple_choice(q, answer) ==
    IF answer.t # "list"
    THEN Verdict(FALSE, "Answer must be a list of choice IDs")
    ELSE IF ~q.is_multiple_selection /\ Len(answer.v) > 1
    THEN Verdict(FALSE, "Only one answer allowed for this question")
    ELSE IF \E i \in 1..Len(answer.v) : IntOf(answer.v[i]) = NULL
    THEN Verdict(FALSE, "Invalid choice IDs")
    ELSE LET ids == [i \in 1..Len(answer.v) |-> IntOf(answer.v[i])]
         IN IF Sorted(ids) = Sorted(get_correct_choices(q))
            THEN Verdict(TRUE, "Correct!")
            ELSE Verdict(FALSE, "Incorrect. Try again!")

\* the loop over answer.items() of _validate_fill_blank, from item i on;
\* bad: some earlier blank was appended to incorrect_blanks
RECURSIVE fill_blank_loop(_, _, _, _)
fill_blank_loop(q, items, i, bad) ==
    IF i > Len(items)
    THEN IF bad THEN Verdict(FALSE, "Incorrect. Try again!")
                ELSE Verdict(TRUE, "Correct!")
    ELSE LET blank_idx == ParseInt(items[i][1])
             user_answer == items[i][2]
             correct_answers == get_correct_answers(q)
         IN IF blank_idx = NULL
            THEN Verdict(FALSE, "Invalid blank index format")
            ELSE IF blank_idx \notin DOMAIN correct_answers
            THEN Verdict(FALSE, "Invalid blank index")
            ELSE LET valid_answers == correct_answers[blank_idx]
                     is_str == user_answer.t = "atom" /\ ~user_answer.v.num
                 IN IF q.case_sensitive
                    THEN fill_blank_loop(q, items, i + 1,
                            bad \/ ~(is_str /\ user_answer.v.s \in valid_answers))
                    ELSE IF ~is_str
                    THEN Raised("AttributeError")
                    ELSE fill_blank_loop(q, items, i + 1,
                            bad \/ Lower(user_answer.v.s) \notin
                                      {Lower(a) : a \in valid_answers})

\* a validator that expects every blank of the key to be submitted
validate_fill_blank_requires_every_blank(q, answer) ==
    IF answer.t # "dict"
    THEN Verdict(FALSE,
            "Answer must be a dictionary mapping blank indices to answers")
    ELSE IF {ParseInt(answer.v[i][1]) : i \in 1..Len(answer.v)}
                # DOMAIN get_correct_answers(q)
    THEN Verdict(FALSE, "Incorrect. Try again!")
    ELSE fill_blank_loop(q, answer.v, 1, FALSE)

validate_fill_blank(q, answer) ==
    IF answer.t # "dict"
    THEN Verdict(FALSE,
            "Answer must be a dictionary mapping blank indices to answers")
    ELSE fill_blank_loop(q, answer.v, 1, FALSE)

\* only the first listed item of a target
item_strings_first_only(value) ==
    IF value.t = "list"
    THEN {StrOf(value.v[i]) : i \in 1..Len(value.v) \cap {1}}
    ELSE IF value.t = "atom" THEN {StrOf(value.v)}
    ELSE {"<dict>"}

\* item_indices of one submitted target, as a set of str(x)
item_strings(value) ==
    IF value.t = "list" THEN {StrOf(value.v[i]) : i \in 1..Len(value.v)}
    ELSE IF value.t = "atom" THEN {StrOf(value.v)}
    ELSE {"<dict>"}

\* the loop over answer.items() of _validate_drag_drop, from item i on
RECURSIVE drag_drop_loop(_, _, _, _)
drag_drop_loop(q, items, i, bad) ==
    IF i > Len(items)
    THEN IF bad THEN Verdict(FALSE, "Incorrect. Try again!")
                ELSE Verdict(TRUE, "Correct!")
    ELSE LET target_idx == items[i][1]
             correct_mappings == get_correct_mappings(q)
         IN IF target_idx \notin DOMAIN correct_mappings
            THEN Verdict(FALSE, "Invalid target ID")
            ELSE drag_drop_loop(q, items, i + 1,
                    bad \/ ~(item_strings(items[i][2]) \subseteq
                                correct_mappings[target_idx]))

validate_drag_drop(q, answer) ==
    IF answer.t # "dict"
    THEN Verdict(FALSE,
        "Answer must be a dictionary mapping target IDs to draggable item IDs")
    ELSE drag_drop_loop(q, answer.v, 1, FALSE)

validate_reorder_ignores_order(q, answer) ==
    IF answer.t # "list"
    THEN Verdict(FALSE,
            "Answer must be a list of item IDs in the correct order")
    ELSE IF SeqToSet([i \in 1..Len(answer.v) |-> StrOf(answer.v[i])])
                = SeqToSet(get_correct_order(q))
    THEN Verdict(TRUE, "Correct sequence!")
    ELSE Verdict(FALSE, "Incorrect sequence. Try again!")

validate_reorder(q, answer) ==
    IF answer.t # "list"
    THEN Verdict(FALSE,
            "Answer must be a list of item IDs in the correct order")
    ELSE IF [i \in 1..Len(answer.v) |-> StrOf(answer.v[i])]
                = get_correct_order(q)
    THEN Verdict(TRUE, "Correct sequence!")
    ELSE Verdict(FALSE, "Incorrect sequence. Try again!")

evaluate_answer(q, answer) ==
    CASE q.type = "multiple_choice" -> validate_multiple_choice(q, answer)
      [] q.type = "fill_blank" -> validate_fill_blank(q, answer)
      [] q.type = "drag_drop" -> validate_drag_drop(q, answer)
      [] q.type = "reorder" -> validate_reorder(q, answer)
      [] OTHER -> Verdict(FALSE, "Unsupported question type.")

\* ------------------------------------------------------ reward calculator
\* xp_earned / jems_earned of QuestionSubmitView.create
xp_reward_divides_by_prior_count(q, is_correct, attempt_count) ==
    IF ~is_correct THEN 0
    ELSE IF attempt_count = 0 THEN q.xp_available
    ELSE Max(MinXp, q.xp_available \div attempt_count)

xp_reward(q, is_correct, attempt_count) ==
    IF ~is_correct THEN 0
    ELSE IF attempt_count = 0 THEN q.xp_available
    ELSE Max(MinXp, q.xp_available \div (attempt_count + 1))

jems_reward(q, is_correct, attempt_count) ==
    IF ~is_correct THEN 0
    ELSE IF attempt_count = 0 THEN q.jems
    ELSE Max(MinJems, q.jems \div (attempt_count + 1))

\* a count of the correct attempts of the key only
attempt_count_correct_only(rows, qid, lid) ==
    Cardinality({i \in 1..Len(rows) :
                    /\ rows[i].question = qid /\ rows[i].lesson = lid
                    /\ rows[i].is_correct})

\* UserQuestionAttempt.objects.filter(user, question, lesson_id).count()
attempt_count(rows, qid, lid) ==
    Cardinality({i \in 1..Len(rows) :
                    rows[i].question = qid /\ rows[i].lesson = lid})

\* QuestionSubmitView._update_user_streak, on the in-memory user object
update_user_streak(u, today) ==
    IF u.last_activity = NULL
    THEN [u EXCEPT !.streak_days = 1]
    ELSE IF today - u.last_activity = 1
    THEN [u EXCEPT !.streak_days = @ + 1]
    ELSE IF today - u.last_activity > 1
    THEN [u EXCEPT !.streak_days = 1]
    ELSE u

\* --------------------------------------------------------------- requests
NoRequest == [op |-> "none"]

InitUser == [total_xp |-> 0, jems |-> 5, streak_days |-> 0,
             last_activity |-> NULL]

WorkerIds == {"w1", "w2"}
Idle == [pc |-> "idle"]

Init ==
    /\ now = 0
    /\ user = InitUser
    /\ attempts = <<>>
    /\ xpLedger = <<>>
    /\ jemLedger = <<>>
    /\ last = NoRequest
    /\ workers = [w \in WorkerIds |-> Idle]
    /\ slideProgress = [s \in SlideIds |-> NoSlideRow]
    /\ lessonProgress = [l \in LessonIds |-> NoLessonRow]
    /\ enrollment = [c \in CourseIds |-> NoEnrollment]
    /\ reviews = <<>>
    /\ reviewAttempts = <<>>

\* the clock advances by one day
Tick ==
    /\ now < MaxDay
    /\ now' = now + 1
    /\ UNCHANGED <<reviewVars, user, attempts, xpLedger, jemLedger, last, workers,
                   progressVars>>

\* the response recorded for a question submission
SubmitResponse(qid, lid, answer, status, verdict, count, xp, jems) ==
    [op |-> "submit", question |-> qid, lesson |-> lid, answer |-> answer,
     status |-> status, is_correct |-> verdict.ok,
     message |-> verdict.message, prior_count |-> count,
     xp_earned |-> xp, jems_earned |-> jems]

\* the handler without its 'amount > 0' tests
SubmitWrites_records_zero_amounts(u, qid, lid, answer, verdict, count) ==
    LET q == Questions[qid]
        is_correct == verdict.ok
        xp_earned == xp_reward(q, is_correct, count)
        jems_earned == jems_reward(q, is_correct, count)
        attempt == [question |-> qid, lesson |-> lid,
                    is_correct |-> is_correct,
                    attempt_number |-> count + 1,
                    jems_earned |-> jems_earned]
        u1 == [u EXCEPT !.total_xp = @ + xp_earned,
                        !.jems = @ + jems_earned,
                        !.last_activity = now]
        u2 == update_user_streak(u1, now)
    IN IF verdict.raised
       THEN \* the exception leaves transaction.atomic: nothing is written
            /\ last' = SubmitResponse(qid, lid, answer, 500, verdict,
                                      count, 0, 0)
            /\ UNCHANGED <<attempts, xpLedger, jemLedger, user>>
       ELSE /\ attempts' = Append(attempts, attempt)
            /\ IF is_correct
               THEN /\ xpLedger' =
                         Append(xpLedger, [amount |-> xp_earned,
                                           source_type |-> "question",
                                           object_id |-> qid])
                    /\ jemLedger' =
                         Append(jemLedger, [amount |-> jems_earned,
                                            source_type |-> "question",
                                            object_id |-> qid])
                    \* save(update_fields=[total_xp, jems, last_activity]),
                    \* then save(update_fields=[streak_days])
                    /\ user' = [user EXCEPT
                                    !.total_xp = u1.total_xp,
                                    !.jems = u1.jems,
                                    !.last_activity = u1.last_activity,
                                    !.streak_days = u2.streak_days]
               ELSE UNCHANGED <<xpLedger, jemLedger, user>>
            /\ last' = SubmitResponse(qid, lid, answer, 200, verdict,
                                      count, xp_earned, jems_earned)

\* QuestionSubmitView.create from the reward calculation to the response,
\* given the request.user object in memory, the evaluation result and the
\* attempt count that was read
SubmitWrites(u, qid, lid, answer, verdict, count) ==
    LET q == Questions[qid]
        is_correct == verdict.ok
        xp_earned == xp_reward(q, is_correct, count)
        jems_earned == jems_reward(q, is_correct, count)
        attempt == [question |-> qid, lesson |-> lid,
                    is_correct |-> is_correct,
                    attempt_number |-> count + 1,
                    jems_earned |-> jems_earned]
        u1 == [u EXCEPT !.total_xp = @ + xp_earned,
                        !.jems = @ + jems_earned,
                        !.last_activity = now]
        u2 == update_user_streak(u1, now)
    IN IF verdict.raised
       THEN \* the exception leaves transaction.atomic: nothing is written
            /\ last' = SubmitResponse(qid, lid, answer, 500, verdict,
                                      count, 0, 0)
            /\ UNCHANGED <<attempts, xpLedger, jemLedger, user>>
       ELSE /\ attempts' = Append(attempts, attempt)
            /\ IF is_correct
               THEN /\ xpLedger' =
                         IF xp_earned > 0
                         THEN Append(xpLedger, [amount |-> xp_earned,
                                                source_type |-> "question",
                                                object_id |-> qid])
                         ELSE xpLedger
                    /\ jemLedger' =
                         IF jems_earned > 0
                         THEN Append(jemLedger, [amount |-> jems_earned,
                                                 source_type |-> "question",
                                                 object_id |-> qid])
                         ELSE jemLedger
                    \* save(update_fields=[total_xp, jems, last_activity]),
                    \* then save(update_fields=[streak_days])
                    /\ user' = [user EXCEPT
                                    !.total_xp = u1.total_xp,
                                    !.jems = u1.jems,
                                    !.last_activity = u1.last_activity,
                                    !.streak_days = u2.streak_days]
               ELSE UNCHANGED <<xpLedger, jemLedger, user>>
            /\ last' = SubmitResponse(qid, lid, answer, 200, verdict,
                                      count, xp_earned, jems_earned)

\* POST /questions/<qid>/submit/ {answer, lesson}, run without interleaving
QuestionSubmit(qid, lid, answer) ==
    /\ Len(attempts) < MaxAttempts
    /\ SubmitWrites(user, qid, lid, answer,
                    evaluate_answer(Questions[qid], answer),
                    attempt_count(attempts, qid, lid))
    /\ UNCHANGED <<reviewVars, now, workers, progressVars>>

\* --- the same handler as two steps of a worker, for overlapping requests.
\* No row lock is taken and UserQuestionAttempt has no unique constraint; a
\* transaction sees the rows committed before its read (READ COMMITTED).
InFlight == {w \in WorkerIds : workers[w].pc # "idle"}

\* authentication loads request.user; the answer is evaluated; the attempts
\* of the key are counted
SubmitBegin(w, qid, lid, answer) ==
    /\ workers[w].pc = "idle"
    /\ Len(attempts) + Cardinality(InFlight) < MaxConcAttempts
    /\ workers' = [workers EXCEPT ![w] =
            [pc |-> "counted", question |-> qid, lesson |-> lid,
             answer |-> answer, u |-> user,
             verdict |-> evaluate_answer(Questions[qid], answer),
             count |-> attempt_count(attempts, qid, lid)]]
    /\ UNCHANGED <<reviewVars, now, user, attempts, xpLedger, jemLedger, last,
                   progressVars>>

\* the attempt, the transactions and the user fields are written and the
\* transaction commits
SubmitCommit(w) ==
    /\ workers[w].pc = "counted"
    /\ SubmitWrites(workers[w].u, workers[w].question, workers[w].lesson,
                    workers[w].answer, workers[w].verdict, workers[w].count)
    /\ workers' = [workers EXCEPT ![w] = Idle]
    /\ UNCHANGED <<reviewVars, now, progressVars>>

\* the answers a client submits to each question, well-formed and malformed
SubmitAnswers(qid) ==
    CASE qid = "q1" ->
            {JList(<<Num("5"), Num("2")>>), JList(<<Num("2"), Num("5")>>),
             JList(<<Num("1")>>), JList(<<Str("2"), Str("5")>>),
             JList(<<Num("2"), Str("x")>>),
             JList(<<Num("2"), Num("2"), Num("5")>>), JAtom(Num("2"))}
      [] qid = "q2" ->
            {JList(<<Num("1")>>), JList(<<Num("2")>>),
             JList(<<Num("1"), Num("2")>>),
             JDict(<< <<"1", JAtom(Num("1"))>> >>)}
      [] qid = "q3" ->
            {JDict(<< <<"0", JAtom(Str("Paris"))>> >>),
             JDict(<< <<"0", JAtom(Str("berlin"))>>,
                      <<"1", JAtom(Str("roma"))>> >>),
             JDict(<< <<"7", JAtom(Str("paris"))>> >>),
             JDict(<< <<"0", JAtom(Num("2"))>> >>),
             JList(<<Str("paris")>>)}
      [] qid = "q4" ->
            {JDict(<< <<"10", JList(<<Num("20"), Num("21")>>)>>,
                      <<"11", JAtom(Num("22"))>> >>),
             JDict(<< <<"10", JList(<<Num("22")>>)>> >>),
             JDict(<< <<"12", JList(<<Num("20")>>)>> >>),
             JAtom(Num("20"))}
      [] qid = "q5" ->
            {JList(<<Num("32"), Num("31"), Num("33")>>),
             JList(<<Num("31"), Num("32"), Num("33")>>),
             JAtom(Str("paris"))}
      [] OTHER -> {}

NextSubmit ==
    \/ Tick
    \/ \E qid \in QuestionIds, lid \in SubmitLessonIds :
            \E answer \in SubmitAnswers(qid) :
                QuestionSubmit(qid, lid, answer)

SpecSubmit == Init /\ [][NextSubmit]_vars

\* --- a submission one of whose database writes fails
\* the writes of QuestionSubmitView.create, in program order
submit_writes(is_correct, xp_earned, jems_earned) ==
    <<"attempt">>
    \o (IF is_correct /\ xp_earned > 0 THEN <<"xp">> ELSE <<>>)
    \o (IF is_correct /\ jems_earned > 0 THEN <<"jems">> ELSE <<>>)
    \o (IF is_correct THEN <<"totals", "streak">> ELSE <<>>)

\* the tables db = [attempts, xpLedger, jemLedger, user] after the writes ws
\* of a correct or incorrect submission of answer to (qid, lid), count
\* attempts having been read
RECURSIVE apply_writes(_, _, _, _, _, _)
apply_writes(db, ws, qid, lid, is_correct, count) ==
    IF ws = <<>> THEN db
    ELSE LET q == Questions[qid]
             xp_earned == xp_reward(q, is_correct, count)
             jems_earned == jems_reward(q, is_correct, count)
             u1 == [user EXCEPT !.total_xp = @ + xp_earned,
                                !.jems = @ + jems_earned,
                                !.last_activity = now]
             u2 == update_user_streak(u1, now)
             w == Head(ws)
             db1 ==
               CASE w = "attempt" ->
                      [db EXCEPT !.attempts = Append(@,
                          [question |-> qid, lesson |-> lid,
                           is_correct |-> is_correct,
                           attempt_number |-> count + 1,
                           jems_earned |-> jems_earned])]
                 [] w = "xp" ->
                      [db EXCEPT !.xpLedger = Append(@,
                          [amount |-> xp_earned, source_type |-> "question",
                           object_id |-> qid])]
                 [] w = "jems" ->
                      [db EXCEPT !.jemLedger = Append(@,
                          [amount |-> jems_earned, source_type |-> "question",
                           object_id |-> qid])]
                 [] w = "totals" ->
                      [db EXCEPT !.user = [@ EXCEPT
                          !.total_xp = u1.total_xp, !.jems = u1.jems,
                          !.last_activity = u1.last_activity]]
                 [] w = "streak" ->
                      [db EXCEPT !.user = [@ EXCEPT
                          !.streak_days = u2.streak_days]]
         IN apply_writes(db1, Tail(ws), qid, lid, is_correct, count)

\* a handler that ignores the exception: the writes made before it stay
transaction_atomic_without_rollback(before, after, raised) ==
    after

\* @transaction.atomic around create(): the tables when the handler is left,
\* by return (commit) or by an exception (rollback)
transaction_atomic(before, after, raised) ==
    IF raised THEN before ELSE after

\* POST /questions/<qid>/submit/ whose k-th database write raises
QuestionSubmitFails(qid, lid, answer, k) ==
    LET verdict == evaluate_answer(Questions[qid], answer)
        count == attempt_count(attempts, qid, lid)
        ws == submit_writes(verdict.ok,
                            xp_reward(Questions[qid], verdict.ok, count),
                            jems_reward(Questions[qid], verdict.ok, count))
        before == [attempts |-> attempts, xpLedger |-> xpLedger,
                   jemLedger |-> jemLedger, user |-> user]
        partial == apply_writes(before, SubSeq(ws, 1, k - 1), qid, lid,
                                verdict.ok, count)
        db == transaction_atomic(before, partial, TRUE)
    IN /\ Len(attempts) < MaxAttempts
       /\ ~verdict.raised
       /\ k \in 1..Len(ws)
       /\ attempts' = db.attempts
       /\ xpLedger' = db.xpLedger
       /\ jemLedger' = db.jemLedger
       /\ user' = db.user
       /\ last' = [op |-> "submit", question |-> qid, status |-> 500,
                   failed_write |-> ws[k]]
       /\ UNCHANGED <<now, workers, progressVars, reviewVars>>

\* the answers of overlapping submissions and of failing ones
ConcAnswers(qid) ==
    CASE qid = "q1" -> {JList(<<Num("5"), Num("2")>>), JList(<<Num("1")>>)}
      [] qid = "q2" -> {JList(<<Num("1")>>), JList(<<Num("2")>>)}
      [] OTHER -> {}

\* the largest number of writes of one submission
SubmitWriteCount == 5

NextAtomic ==
    \/ Tick
    \/ \E qid \in QuestionIds, lid \in SubmitLessonIds :
            \E answer \in ConcAnswers(qid) :
                QuestionSubmit(qid, lid, answer)
    \/ \E qid \in QuestionIds, lid \in SubmitLessonIds :
            \E answer \in ConcAnswers(qid), k \in 1..SubmitWriteCount :
                QuestionSubmitFails(qid, lid, answer, k)

SpecAtomic == Init /\ [][NextAtomic]_vars

NextConc ==
    \/ \E w \in WorkerIds, qid \in QuestionIds, lid \in SubmitLessonIds :
            \E answer \in ConcAnswers(qid) : SubmitBegin(w, qid, lid, answer)
    \/ \E w \in WorkerIds : SubmitCommit(w)

SpecConc == Init /\ [][NextConc]_vars

\* --- submissions that name ids without a row
\* a question id and a lesson id absent from the tables
MissingQuestionIds == {"q0"}
MissingLessonIds == {9}

\* the request bodies sent with such ids
LookupAnswers == {JList(<<Num("5"), Num("2")>>), JList(<<Num("1")>>)}

\* POST /questions/<qid>/submit/ for a qid without a Question row:
\* get_object_or_404 answers 404 before the body is read
QuestionSubmitMissingQuestion(qid, lid, answer) ==
    /\ qid \notin QuestionIds
    /\ last' = [op |-> "submit", question |-> qid, lesson |-> lid,
                answer |-> answer, status |-> 404]
    /\ UNCHANGED <<attempts, xpLedger, jemLedger, user, now, workers,
                   progressVars, reviewVars>>

\* POST /questions/<qid>/submit/ {answer, lesson: lid} for a lid without a
\* Lesson row. The handler never reads the Lesson table: the integer goes
\* into the count of attempts and into the lesson_id column of the new
\* attempt. fk_enforced: the database checks the foreign key of
\* UserQuestionAttempt.lesson and raises IntegrityError, at the insert or at
\* the commit, which rolls the atomic block back; otherwise the handler
\* completes as it does for an existing lesson.
QuestionSubmitMissingLesson(qid, lid, answer, fk_enforced) ==
    LET verdict == evaluate_answer(Questions[qid], answer)
        count == attempt_count(attempts, qid, lid)
    IN /\ lid \notin SubmitLessonIds
       /\ Len(attempts) < MaxAttempts
       /\ IF fk_enforced /\ ~verdict.raised
          THEN /\ last' = SubmitResponse(qid, lid, answer, 500, verdict,
                                         count, 0, 0)
               /\ UNCHANGED <<attempts, xpLedger, jemLedger, user>>
          ELSE SubmitWrites(user, qid, lid, answer, verdict, count)
       /\ UNCHANGED <<now, workers, progressVars, reviewVars>>

NextLookup ==
    \/ Tick
    \/ \E qid \in QuestionIds, lid \in SubmitLessonIds :
            \E answer \in ConcAnswers(qid) : QuestionSubmit(qid, lid, answer)
    \/ \E qid \in MissingQuestionIds,
          lid \in SubmitLessonIds \cup MissingLessonIds :
            \E answer \in LookupAnswers :
                QuestionSubmitMissingQuestion(qid, lid, answer)
    \/ \E qid \in QuestionIds, lid \in MissingLessonIds :
            \E answer \in ConcAnswers(qid), fk_enforced \in BOOLEAN :
                QuestionSubmitMissingLesson(qid, lid, answer, fk_enforced)

SpecLookup == Init /\ [][NextLookup]_vars

\* ========================================================= progress chain
\* serializer.update: the fields present in the request body overwrite the
\* row's, the others keep their values
Merge(row, body) ==
    [f \in DOMAIN row |-> IF f \in DOMAIN body THEN body[f] ELSE row[f]]

ProgressResponse(op, target, status) ==
    [op |-> op, status |-> status]

\* request bodies of the slide-progress endpoints (is_completed, xp_earned
\* and completed_at are writable serializer fields)
SlideBodies ==
    <<[is_completed |-> TRUE],
      [is_completed |-> FALSE],
      [is_completed |-> TRUE, xp_earned |-> 10, completed_at |-> now]>>

\* request bodies of the lesson-progress endpoints (completion_percentage,
\* xp_earned, current_slide and completed_date are writable)
LessonBodies ==
    <<[current_slide |-> "s1"],
      [xp_earned |-> 0, completed_date |-> NULL]>>

RequiredSlides(l) ==
    {s \in SlideIds : Slides[s].lesson = l /\ Slides[s].is_required}

CompletedRequiredSlides(l, sp) ==
    {s \in RequiredSlides(l) : sp[s].exists /\ sp[s].is_completed}

LessonXpRow(l, amount) ==
    [amount |-> amount, source_type |-> "lesson", object_id |-> l]

\* _update_lesson_progress without the "not completed_date" guard and with
\* the full xp_available as the amount: every recomputation at 100 percent
\* awards again
update_lesson_progress_awards_each_time(l, sp, lp, ledger) ==
    LET total_slides == Cardinality(RequiredSlides(l))
        completed_slides == Cardinality(CompletedRequiredSlides(l, sp))
        completion_percentage == (completed_slides * 100) \div total_slides
        row0 == IF lp[l].exists THEN lp[l] ELSE NewLessonRow
        completes == completion_percentage >= 100
        row1 == [row0 EXCEPT
                    !.completion_percentage = completion_percentage,
                    !.completed_date = IF completes THEN now ELSE @,
                    !.xp_earned = IF completes THEN Lessons[l].xp_available
                                               ELSE @]
    IN IF total_slides = 0
       THEN [lessonProgress |-> lp, xpLedger |-> ledger]
       ELSE [lessonProgress |-> [lp EXCEPT ![l] = row1],
             xpLedger |-> IF completes
                          THEN Append(ledger,
                                      LessonXpRow(l, Lessons[l].xp_available))
                          ELSE ledger]

\* UserSlideProgressViewSet._update_lesson_progress(lesson), reading the
\* slide rows sp: the new UserLessonProgress and UserXP tables
update_lesson_progress(l, sp, lp, ledger) ==
    LET total_slides == Cardinality(RequiredSlides(l))
        completed_slides == Cardinality(CompletedRequiredSlides(l, sp))
    IN IF total_slides = 0
       THEN [lessonProgress |-> lp, xpLedger |-> ledger]
       ELSE LET completion_percentage ==
                    (completed_slides * 100) \div total_slides
                row0 == IF lp[l].exists THEN lp[l] ELSE NewLessonRow
                row1 == [row0 EXCEPT
                            !.completion_percentage = completion_percentage]
                completes == completion_percentage >= 100
                                /\ row0.completed_date = NULL
                awards == completes
                            /\ row0.xp_earned < Lessons[l].xp_available
                xp_to_award == Lessons[l].xp_available - row0.xp_earned
                row2 == IF completes
                        THEN [row1 EXCEPT !.completed_date = now]
                        ELSE row1
                row3 == IF awards
                        THEN [row2 EXCEPT !.xp_earned = @ + xp_to_award]
                        ELSE row2
            IN [lessonProgress |-> [lp EXCEPT ![l] = row3],
                xpLedger |-> IF awards
                             THEN Append(ledger, LessonXpRow(l, xp_to_award))
                             ELSE ledger]

\* POST /lessons/<l>/slides/<s>/progress/ : perform_create
SlideProgressCreate(l, s, body) ==
    /\ Len(update_lesson_progress(l,
            [slideProgress EXCEPT ![s] = Merge(@, body)],
            lessonProgress, xpLedger).xpLedger) <= MaxTx
    /\ IF Slides[s].lesson # l
       THEN /\ last' = ProgressResponse("slide_progress_create", s, 404)
            /\ UNCHANGED <<slideProgress, lessonProgress, xpLedger>>
       ELSE IF ~slideProgress[s].exists
       THEN \* get_or_create inserts the row; serializer.instance stays
            \* None, so serializer.save() inserts a second row for the same
            \* (user, slide): IntegrityError on unique_together
            /\ slideProgress' = [slideProgress EXCEPT ![s] = NewSlideRow]
            /\ last' = ProgressResponse("slide_progress_create", s, 500)
            /\ UNCHANGED <<lessonProgress, xpLedger>>
       ELSE LET sp == [slideProgress EXCEPT ![s] = Merge(@, body)]
                r == update_lesson_progress(l, sp, lessonProgress, xpLedger)
            IN /\ slideProgress' = sp
               /\ lessonProgress' = r.lessonProgress
               /\ xpLedger' = r.xpLedger
               /\ last' = ProgressResponse("slide_progress_create", s, 201)
    /\ UNCHANGED <<reviewVars, now, user, enrollment, submitVars>>

\* PUT/PATCH /lessons/<l>/slides/<s>/progress/<pk>/ : ModelViewSet.update
SlideProgressUpdate(s, body) ==
    /\ IF slideProgress[s].exists
       THEN /\ slideProgress' = [slideProgress EXCEPT ![s] = Merge(@, body)]
            /\ last' = ProgressResponse("slide_progress_update", s, 200)
       ELSE /\ last' = ProgressResponse("slide_progress_update", s, 404)
            /\ UNCHANGED slideProgress
    /\ UNCHANGED <<reviewVars, now, user, xpLedger, lessonProgress, enrollment,
                   submitVars>>

\* DELETE /lessons/<l>/slides/<s>/progress/<pk>/ : ModelViewSet.destroy
SlideProgressDestroy(s) ==
    /\ IF slideProgress[s].exists
       THEN /\ slideProgress' = [slideProgress EXCEPT ![s] = NoSlideRow]
            /\ last' = ProgressResponse("slide_progress_destroy", s, 204)
       ELSE /\ last' = ProgressResponse("slide_progress_destroy", s, 404)
            /\ UNCHANGED slideProgress
    /\ UNCHANGED <<reviewVars, now, user, xpLedger, lessonProgress, enrollment,
                   submitVars>>

\* POST /lessons/<l>/progress/ : UserLessonProgressViewSet.perform_create
LessonProgressCreate(l, body) ==
    /\ IF ~lessonProgress[l].exists
       THEN \* get_or_create inserts the row; serializer.save() then inserts
            \* a row without user and lesson: IntegrityError
            /\ lessonProgress' = [lessonProgress EXCEPT ![l] = NewLessonRow]
            /\ last' = ProgressResponse("lesson_progress_create", l, 500)
       ELSE /\ lessonProgress' = [lessonProgress EXCEPT ![l] = Merge(@, body)]
            /\ last' = ProgressResponse("lesson_progress_create", l, 201)
    /\ UNCHANGED <<reviewVars, now, user, xpLedger, slideProgress, enrollment,
                   submitVars>>

\* PUT/PATCH /lessons/<l>/progress/<pk>/ : ModelViewSet.update
LessonProgressUpdate(l, body) ==
    /\ IF lessonProgress[l].exists
       THEN /\ lessonProgress' = [lessonProgress EXCEPT ![l] = Merge(@, body)]
            /\ last' = ProgressResponse("lesson_progress_update", l, 200)
       ELSE /\ last' = ProgressResponse("lesson_progress_update", l, 404)
            /\ UNCHANGED lessonProgress
    /\ UNCHANGED <<reviewVars, now, user, xpLedger, slideProgress, enrollment,
                   submitVars>>

\* DELETE /lessons/<l>/progress/<pk>/ : ModelViewSet.destroy
LessonProgressDestroy(l) ==
    /\ IF lessonProgress[l].exists
       THEN /\ lessonProgress' = [lessonProgress EXCEPT ![l] = NoLessonRow]
            /\ last' = ProgressResponse("lesson_progress_destroy", l, 204)
       ELSE /\ last' = ProgressResponse("lesson_progress_destroy", l, 404)
            /\ UNCHANGED lessonProgress
    /\ UNCHANGED <<reviewVars, now, user, xpLedger, slideProgress, enrollment,
                   submitVars>>

CourseXpRow(c) ==
    [amount |-> CourseXp, source_type |-> "course", object_id |-> c]

\* LessonCompleteView._update_course_progress(course), reading the lesson
\* rows lp as stored: the new enrollment and UserXP tables and total_xp
update_course_progress(c, enr, lp, ledger, total_xp) ==
    LET total_lessons ==
            Cardinality({l \in LessonIds :
                            Lessons[l].course = c /\ Lessons[l].is_published})
        completed_lessons ==
            Cardinality({l \in LessonIds :
                            /\ Lessons[l].course = c
                            /\ lp[l].exists
                            /\ lp[l].completed_date # NULL})
    IN IF ~enr[c].exists \/ total_lessons = 0
       THEN [enrollment |-> enr, xpLedger |-> ledger, total_xp |-> total_xp]
       ELSE LET completion_percentage ==
                    (completed_lessons * 100) \div total_lessons
                completes == completion_percentage >= 100
                                /\ ~enr[c].is_completed
                row == [enr[c] EXCEPT
                          !.completion_percentage = completion_percentage,
                          !.is_completed = IF completes THEN TRUE ELSE @]
            IN [enrollment |-> [enr EXCEPT ![c] = row],
                xpLedger |-> IF completes
                             THEN Append(ledger, CourseXpRow(c))
                             ELSE ledger,
                total_xp |-> IF completes
                             THEN total_xp + CourseXp
                             ELSE total_xp]

\* POST /lessons/<l>/start/ : LessonStartView.create
LessonStart(l) ==
    /\ IF ~Lessons[l].is_published
       THEN /\ last' = ProgressResponse("lesson_start", l, 404)
            /\ UNCHANGED lessonProgress
       ELSE IF lessonProgress[l].exists
       THEN /\ last' = ProgressResponse("lesson_start", l, 400)
            /\ UNCHANGED lessonProgress
       ELSE IF ~enrollment[Lessons[l].course].exists
       THEN /\ last' = ProgressResponse("lesson_start", l, 403)
            /\ UNCHANGED lessonProgress
       ELSE /\ lessonProgress' = [lessonProgress EXCEPT ![l] = NewLessonRow]
            /\ last' = ProgressResponse("lesson_start", l, 201)
    /\ UNCHANGED <<reviewVars, now, user, xpLedger, slideProgress, enrollment,
                   submitVars>>

\* PUT/PATCH /lessons/<l>/complete/ : LessonCompleteView.update
LessonComplete(l) ==
    LET progress == lessonProgress[l]
        required_slides == Cardinality(RequiredSlides(l))
        completed_slides ==
            Cardinality(CompletedRequiredSlides(l, slideProgress))
        awards == progress.xp_earned < Lessons[l].xp_available
        xp_to_award == Lessons[l].xp_available - progress.xp_earned
        ledger1 == IF awards
                   THEN Append(xpLedger, LessonXpRow(l, xp_to_award))
                   ELSE xpLedger
        total1 == IF awards THEN user.total_xp + xp_to_award
                            ELSE user.total_xp
        \* _update_course_progress runs before progress.save(): it reads
        \* the lesson rows as stored
        r == update_course_progress(Lessons[l].course, enrollment,
                                    lessonProgress, ledger1, total1)
        saved == [progress EXCEPT
                    !.completed_date = now,
                    !.completion_percentage = 100,
                    !.xp_earned = IF awards THEN @ + xp_to_award ELSE @]
    IN /\ Len(r.xpLedger) <= MaxTx
       /\ IF ~Lessons[l].is_published
          THEN /\ last' = ProgressResponse("lesson_complete", l, 404)
               /\ UNCHANGED <<user, xpLedger, lessonProgress, enrollment>>
          ELSE IF ~progress.exists \/ completed_slides < required_slides
          THEN /\ last' = ProgressResponse("lesson_complete", l, 400)
               /\ UNCHANGED <<user, xpLedger, lessonProgress, enrollment>>
          ELSE IF progress.completed_date # NULL
          THEN /\ last' = ProgressResponse("lesson_complete", l, 200)
               /\ UNCHANGED <<user, xpLedger, lessonProgress, enrollment>>
          ELSE /\ xpLedger' = r.xpLedger
               /\ user' = [user EXCEPT !.total_xp = r.total_xp]
               /\ enrollment' = r.enrollment
               /\ lessonProgress' = [lessonProgress EXCEPT ![l] = saved]
               /\ last' = ProgressResponse("lesson_complete", l, 200)
       /\ UNCHANGED <<reviewVars, now, slideProgress, submitVars>>

\* POST /courses/<c>/enroll/ : CourseEnrollView.create
Enroll(c) ==
    /\ IF ~Courses[c].is_published
       THEN /\ last' = ProgressResponse("enroll", c, 404)
            /\ UNCHANGED enrollment
       ELSE IF enrollment[c].exists
       THEN /\ last' = ProgressResponse("enroll", c, 400)
            /\ UNCHANGED enrollment
       ELSE /\ enrollment' = [enrollment EXCEPT ![c] = NewEnrollment]
            /\ last' = ProgressResponse("enroll", c, 201)
    /\ UNCHANGED <<reviewVars, now, user, xpLedger, slideProgress, lessonProgress,
                   submitVars>>

\* DELETE /courses/<c>/enrollments/<pk>/ : CourseEnrollmentViewSet.destroy
EnrollmentDestroy(c) ==
    /\ IF enrollment[c].exists
       THEN /\ enrollment' = [enrollment EXCEPT ![c] = NoEnrollment]
            /\ last' = ProgressResponse("enrollment_destroy", c, 204)
       ELSE /\ last' = ProgressResponse("enrollment_destroy", c, 404)
            /\ UNCHANGED enrollment
    /\ UNCHANGED <<reviewVars, now, user, xpLedger, slideProgress, lessonProgress,
                   submitVars>>

\* every operation the API offers on the progress of one lesson and its
\* slides, and on the enrollment in its course
FocusLessons == {"l1"}
FocusSlides == {s \in SlideIds : Slides[s].lesson \in FocusLessons}

NextProgress ==
    \/ \E l \in LessonIds, s \in FocusSlides, i \in DOMAIN SlideBodies :
            SlideProgressCreate(l, s, SlideBodies[i])
    \/ \E s \in FocusSlides, i \in DOMAIN SlideBodies :
            SlideProgressUpdate(s, SlideBodies[i])
    \/ \E s \in FocusSlides : SlideProgressDestroy(s)
    \/ \E l \in FocusLessons, i \in DOMAIN LessonBodies :
            LessonProgressCreate(l, LessonBodies[i])
    \/ \E l \in FocusLessons, i \in DOMAIN LessonBodies :
            LessonProgressUpdate(l, LessonBodies[i])
    \/ \E l \in FocusLessons : LessonProgressDestroy(l)
    \/ \E l \in FocusLessons : LessonStart(l)
    \/ \E l \in FocusLessons : LessonComplete(l)
    \/ \E c \in CourseIds : Enroll(c)
    \/ \E c \in CourseIds : EnrollmentDestroy(c)

SpecProgress == Init /\ [][NextProgress]_vars

\* the completion flow over all lessons of the course: enrolling, starting
\* lessons, completing slides and completing lessons
NextCourse ==
    \/ \E c \in CourseIds : Enroll(c)
    \/ \E l \in LessonIds : LessonStart(l)
    \/ \E s \in SlideIds :
            SlideProgressCreate(Slides[s].lesson, s, [is_completed |-> TRUE])
    \/ \E s \in SlideIds :
            SlideProgressUpdate(s, [is_completed |-> TRUE])
    \/ \E l \in LessonIds : LessonComplete(l)

SpecCourse == Init /\ [][NextCourse]_vars

\* --- the two completion handlers as two steps of a worker, for overlapping
\* requests. Neither handler opens a transaction or locks the
\* UserLessonProgress row: each statement commits on its own and the row
\* object read at the start is the one saved at the end.

\* perform_create up to the get_or_create of _update_lesson_progress: the
\* slide row is saved, the required slides are counted and the lesson row is
\* read (and inserted when absent)
SlidePostBegin(w, l, s, body) ==
    LET sp == [slideProgress EXCEPT ![s] = Merge(@, body)]
        lp == IF lessonProgress[l].exists THEN lessonProgress
              ELSE [lessonProgress EXCEPT ![l] = NewLessonRow]
    IN /\ workers[w].pc = "idle"
       /\ Slides[s].lesson = l
       /\ slideProgress[s].exists
       /\ RequiredSlides(l) # {}
       /\ slideProgress' = sp
       /\ lessonProgress' = lp
       /\ workers' = [workers EXCEPT ![w] =
                [pc |-> "slide_read", lesson |-> l, slide |-> s,
                 sp |-> sp, lesson_progress |-> lp[l]]]
       /\ UNCHANGED <<now, user, attempts, xpLedger, jemLedger, last,
                      enrollment, reviewVars>>

\* the rest of _update_lesson_progress on the row object read before: the
\* percentage, the completion date, the award and lesson_progress.save()
SlidePostCommit(w) ==
    LET l == workers[w].lesson
        r == update_lesson_progress(l, workers[w].sp,
                [lessonProgress EXCEPT ![l] = workers[w].lesson_progress],
                xpLedger)
    IN /\ workers[w].pc = "slide_read"
       /\ Len(r.xpLedger) <= MaxTx
       /\ lessonProgress' = [lessonProgress EXCEPT ![l] = r.lessonProgress[l]]
       /\ xpLedger' = r.xpLedger
       /\ last' = ProgressResponse("slide_progress_create",
                                   workers[w].slide, 201)
       /\ workers' = [workers EXCEPT ![w] = Idle]
       /\ UNCHANGED <<now, user, attempts, jemLedger, slideProgress,
                      enrollment, reviewVars>>

\* LessonCompleteView.update up to the slide counts: the lesson, the
\* progress row and the counts are read
LessonCompleteBegin(w, l) ==
    LET progress == lessonProgress[l]
        required_slides == Cardinality(RequiredSlides(l))
        completed_slides ==
            Cardinality(CompletedRequiredSlides(l, slideProgress))
    IN /\ workers[w].pc = "idle"
       /\ IF ~Lessons[l].is_published
          THEN /\ last' = ProgressResponse("lesson_complete", l, 404)
               /\ UNCHANGED workers
          ELSE IF ~progress.exists \/ completed_slides < required_slides
          THEN /\ last' = ProgressResponse("lesson_complete", l, 400)
               /\ UNCHANGED workers
          ELSE /\ workers' = [workers EXCEPT ![w] =
                        [pc |-> "complete_read", lesson |-> l,
                         progress |-> progress]]
               /\ UNCHANGED last
       /\ UNCHANGED <<now, user, attempts, xpLedger, jemLedger, progressVars,
                      reviewVars>>

\* the rest of LessonCompleteView.update on the row object read before; the
\* total is raised with F("total_xp") + xp_to_award, in the database
LessonCompleteCommit(w) ==
    LET l == workers[w].lesson
        progress == workers[w].progress
        awards == progress.xp_earned < Lessons[l].xp_available
        xp_to_award == Lessons[l].xp_available - progress.xp_earned
        ledger1 == IF awards
                   THEN Append(xpLedger, LessonXpRow(l, xp_to_award))
                   ELSE xpLedger
        total1 == IF awards THEN user.total_xp + xp_to_award
                            ELSE user.total_xp
        r == update_course_progress(Lessons[l].course, enrollment,
                                    lessonProgress, ledger1, total1)
        saved == [progress EXCEPT
                    !.completed_date = now,
                    !.completion_percentage = 100,
                    !.xp_earned = IF awards THEN @ + xp_to_award ELSE @]
    IN /\ workers[w].pc = "complete_read"
       /\ Len(r.xpLedger) <= MaxTx
       /\ IF progress.completed_date # NULL
          THEN UNCHANGED <<user, xpLedger, lessonProgress, enrollment>>
          ELSE /\ xpLedger' = r.xpLedger
               /\ user' = [user EXCEPT !.total_xp = r.total_xp]
               /\ enrollment' = r.enrollment
               /\ lessonProgress' = [lessonProgress EXCEPT ![l] = saved]
       /\ last' = ProgressResponse("lesson_complete", l, 200)
       /\ workers' = [workers EXCEPT ![w] = Idle]
       /\ UNCHANGED <<now, attempts, jemLedger, slideProgress, reviewVars>>

\* slide completions and lesson completions of the focus lesson, run to the
\* end or overlapping
NextProgressConc ==
    \/ Tick
    \/ \E s \in FocusSlides :
            SlideProgressCreate(Slides[s].lesson, s, [is_completed |-> TRUE])
    \/ \E w \in WorkerIds, s \in FocusSlides :
            SlidePostBegin(w, Slides[s].lesson, s, [is_completed |-> TRUE])
    \/ \E w \in WorkerIds : SlidePostCommit(w)
    \/ \E w \in WorkerIds, l \in FocusLessons : LessonCompleteBegin(w, l)
    \/ \E w \in WorkerIds : LessonCompleteCommit(w)

SpecProgressConc == Init /\ [][NextProgressConc]_vars

\* ================================================================ reviews
\* QuestionSlide rows: the question slides of the lessons
QuestionSlides ==
    [qs1 |-> [slide |-> "s1", question |-> "q1", is_for_review |-> TRUE],
     qs2 |-> [slide |-> "s2", question |-> "q3", is_for_review |-> TRUE],
     qs3 |-> [slide |-> "s3", question |-> "q5", is_for_review |-> FALSE]]

QuestionSlideIds == DOMAIN QuestionSlides

\* the size of the random sample of review questions: order_by("?")[:5]
ReviewSample == 5

Min(a, b) == IF a <= b THEN a ELSE b

\* QuestionSlide.objects.filter(slide__lesson=lesson, is_for_review=True)
review_questions(l) ==
    {qs \in QuestionSlideIds :
        /\ Slides[QuestionSlides[qs].slide].lesson = l
        /\ QuestionSlides[qs].is_for_review}

NewReview(l, total_possible) ==
    [lesson |-> l, score |-> 0, total_possible |-> total_possible,
     completion_percentage |-> 0, completion_time |-> NULL]

StartReview_ignores_percentage(l) ==
    /\ IF ~Lessons[l].is_published
       THEN /\ last' = ProgressResponse("start_review", l, 404)
            /\ UNCHANGED reviews
       ELSE IF ~lessonProgress[l].exists
       THEN /\ last' = ProgressResponse("start_review", l, 400)
            /\ UNCHANGED reviews
       ELSE IF review_questions(l) = {}
       THEN /\ last' = ProgressResponse("start_review", l, 404)
            /\ UNCHANGED reviews
       ELSE /\ reviews' = Append(reviews,
                NewReview(l, Min(ReviewSample,
                                 Cardinality(review_questions(l)))))
            /\ last' = ProgressResponse("start_review", l, 200)
    /\ UNCHANGED <<now, user, xpLedger, reviewAttempts, progressVars,
                   submitVars>>

\* POST /lessons/<l>/reviews/start/ : LessonReviewViewSet.start_review
StartReview(l) ==
    /\ IF ~Lessons[l].is_published
       THEN /\ last' = ProgressResponse("start_review", l, 404)
            /\ UNCHANGED reviews
       ELSE IF ~lessonProgress[l].exists
                \/ lessonProgress[l].completion_percentage < 80
       THEN /\ last' = ProgressResponse("start_review", l, 400)
            /\ UNCHANGED reviews
       ELSE IF review_questions(l) = {}
       THEN /\ last' = ProgressResponse("start_review", l, 404)
            /\ UNCHANGED reviews
       ELSE /\ reviews' = Append(reviews,
                NewReview(l, Min(ReviewSample,
                                 Cardinality(review_questions(l)))))
            /\ last' = ProgressResponse("start_review", l, 200)
    /\ UNCHANGED <<now, user, xpLedger, reviewAttempts, progressVars,
                   submitVars>>

\* the inline evaluation of submit_answer: [ok |-> is_correct,
\* raised |-> an exception left the handler]
review_is_correct(q, user_answer) ==
    IF q.type = "multiple_choice"
    THEN \* set(user_answer) == set(mcq.get_correct_choices())
         LET correct_choices == SeqToSet(get_correct_choices(q))
         IN IF user_answer.t = "list"
            THEN [ok |-> /\ \A i \in 1..Len(user_answer.v) :
                                user_answer.v[i].num
                         /\ {IntOf(user_answer.v[i]) :
                                i \in 1..Len(user_answer.v)} = correct_choices,
                  raised |-> FALSE]
            ELSE IF user_answer.t = "dict"
            THEN \* the set of the keys, which are strings
                 [ok |-> user_answer.v = <<>> /\ correct_choices = {},
                  raised |-> FALSE]
            ELSE IF user_answer.v.num
            THEN \* set() of a number: TypeError
                 [ok |-> FALSE, raised |-> TRUE]
            ELSE \* the set of the characters of the string
                 [ok |-> user_answer.v.s = "" /\ correct_choices = {},
                  raised |-> FALSE]
    ELSE IF q.type = "fill_blank"
    THEN \* for idx, answer in enumerate(user_answer): the first position
         \* that is not a key of correct_answers or whose lowered answer is
         \* not among the lowered accepted strings makes it incorrect
         LET correct_answers == get_correct_answers(q)
             \* the strings enumerate() yields: the items of a list, the
             \* keys of a dict
             item(i) == IF user_answer.t = "list" THEN user_answer.v[i]
                        ELSE Str(user_answer.v[i][1])
             fails(i) == \/ (i - 1) \notin DOMAIN correct_answers
                         \/ Lower(item(i).s) \notin
                              {Lower(a) : a \in correct_answers[i - 1]}
             \* .lower() of a number: AttributeError
             raises(i) == /\ (i - 1) \in DOMAIN correct_answers
                          /\ item(i).num
         IN IF user_answer.t = "atom"
            THEN IF user_answer.v.num
                 THEN \* enumerate() of a number: TypeError
                      [ok |-> FALSE, raised |-> TRUE]
                 ELSE \* the characters of the string; no accepted answer
                      \* of the catalog is a single character
                      [ok |-> user_answer.v.s = "", raised |-> FALSE]
            ELSE LET n == Len(user_answer.v)
                     stops == {i \in 1..n : fails(i) \/ raises(i)}
                     first == CHOOSE i \in stops : \A j \in stops : i <= j
                 IN IF stops = {} THEN [ok |-> TRUE, raised |-> FALSE]
                    ELSE IF raises(first)
                    THEN [ok |-> FALSE, raised |-> TRUE]
                    ELSE [ok |-> FALSE, raised |-> FALSE]
    ELSE [ok |-> FALSE, raised |-> FALSE]

ReviewXpRow(r, amount) ==
    [amount |-> amount, source_type |-> "review", object_id |-> r]

\* POST /lessons/<l>/reviews/<r>/questions/<qs>/submit/ : submit_answer
ReviewSubmit(r, qs, user_answer) ==
    LET question == Questions[QuestionSlides[qs].question]
        verdict == review_is_correct(question, user_answer)
        xp_earned == IF verdict.ok THEN question.xp_available ELSE 0
        review == reviews[r]
        total_attempts ==
            Cardinality({i \in 1..Len(reviewAttempts) :
                            reviewAttempts[i].review = r}) + 1
        done == total_attempts >= review.total_possible
        saved == [review EXCEPT
                    !.score = IF verdict.ok THEN @ + 1 ELSE @,
                    !.completion_percentage =
                        (total_attempts * 100) \div review.total_possible,
                    !.completion_time = IF done THEN now ELSE @]
    IN /\ r \in 1..Len(reviews)
       /\ Len(reviewAttempts) < MaxReviewAttempts
       /\ IF verdict.raised
          THEN /\ last' = ProgressResponse("review_submit", r, 500)
               /\ UNCHANGED <<reviews, reviewAttempts, xpLedger>>
          ELSE /\ reviewAttempts' = Append(reviewAttempts,
                    [review |-> r, question_slide |-> qs,
                     is_correct |-> verdict.ok, xp_earned |-> xp_earned])
               /\ reviews' = [reviews EXCEPT ![r] = saved]
               /\ xpLedger' = IF done
                              THEN Append(xpLedger, ReviewXpRow(r, xp_earned))
                              ELSE xpLedger
               /\ last' = ProgressResponse("review_submit", r, 200)
       /\ UNCHANGED <<now, user, progressVars, submitVars>>

\* the answers submitted to the review questions
ReviewAnswers(qs) ==
    CASE qs = "qs1" -> {JList(<<Num("5"), Num("2")>>), JList(<<Num("1")>>)}
      [] qs = "qs2" -> {JList(<<Str("Paris"), Str("roma")>>),
                        JList(<<Num("7")>>),
                        JDict(<< <<"0", JAtom(Str("Paris"))>> >>)}
      [] qs = "qs3" -> {JList(<<Num("32"), Num("31"), Num("33")>>)}
      [] OTHER -> {}

\* reaching the review threshold through slide completions, starting
\* reviews and answering their questions while the clock advances
NextReview ==
    \/ Tick
    \/ \E s \in FocusSlides :
            SlideProgressCreate(Slides[s].lesson, s, [is_completed |-> TRUE])
    \/ \E l \in LessonIds : Len(reviews) < MaxReviews /\ StartReview(l)
    \/ \E r \in 1..MaxReviews, qs \in QuestionSlideIds :
            \E user_answer \in ReviewAnswers(qs) :
                ReviewSubmit(r, qs, user_answer)

SpecReview == Init /\ [][NextReview]_vars

\* reaching the review threshold and starting reviews, one after another
NextReviewStart ==
    \/ Tick
    \/ \E s \in FocusSlides :
            SlideProgressCreate(Slides[s].lesson, s, [is_completed |-> TRUE])
    \/ \E l \in LessonIds :
            Len(reviews) < MaxStartedReviews /\ StartReview(l)

SpecReviewStart == Init /\ [][NextReviewStart]_vars

\* --- the evaluator applied to drawn inputs
EvalAtoms == {Num("1"), Num("2"), Num("5"), Str("2")}

EvalLists == UNION {[1..n -> EvalAtoms] : n \in 0..MaxLen}

\* JSON objects of at most MaxKeys entries with distinct keys
EvalDicts(keys, values) ==
    {JDict(d) : d \in
        {d \in UNION {[1..n -> keys \X values] : n \in 0..MaxKeys} :
            \A i, j \in 1..Len(d) : i # j => d[i][1] # d[j][1]}}

\* blank index -> string, index "7" absent from the keys of the catalog
FillBlankAnswers ==
    EvalDicts({"0", "1", "7"},
              {JAtom(Str("Paris")), JAtom(Str("paris")),
               JAtom(Str("roma")), JAtom(Str("berlin"))})

\* target id -> draggable item ids, target "12" absent from the key
DragDropAnswers ==
    EvalDicts({"10", "11", "12"},
              {JList(<<>>), JList(<<Num("20")>>),
               JList(<<Num("20"), Num("21")>>), JList(<<Num("22")>>),
               JList(<<Num("20"), Num("22")>>), JList(<<Str("21")>>)})

\* item ids of the catalog's reorder question, as numbers and as a string
ReorderAtoms == {Num("31"), Num("32"), Num("33"), Str("32")}

ReorderAnswers ==
    {JList(l) : l \in UNION {[1..n -> ReorderAtoms] : n \in 0..MaxLen}}

EvalAnswers(qid) ==
    CASE Questions[qid].type = "multiple_choice" ->
            {JList(l) : l \in EvalLists} \cup SubmitAnswers(qid)
      [] Questions[qid].type = "reorder" ->
            ReorderAnswers \cup SubmitAnswers(qid)
      [] Questions[qid].type = "fill_blank" ->
            FillBlankAnswers \cup SubmitAnswers(qid)
      [] Questions[qid].type = "drag_drop" ->
            DragDropAnswers \cup SubmitAnswers(qid)
      [] OTHER -> SubmitAnswers(qid)

InitEval ==
    /\ now = 0
    /\ user = InitUser
    /\ attempts = <<>>
    /\ xpLedger = <<>>
    /\ jemLedger = <<>>
    /\ workers = [w \in WorkerIds |-> Idle]
    /\ slideProgress = [s \in SlideIds |-> NoSlideRow]
    /\ lessonProgress = [l \in LessonIds |-> NoLessonRow]
    /\ enrollment = [c \in CourseIds |-> NoEnrollment]
    /\ reviews = <<>>
    /\ reviewAttempts = <<>>
    /\ \E qid \in QuestionIds : \E answer \in EvalAnswers(qid) :
            last = [op |-> "eval_input", question |-> qid, answer |-> answer]

\* QuestionSubmitView._evaluate_answer(question, answer)
Evaluate ==
    /\ last.op = "eval_input"
    /\ last' = [op |-> "eval", question |-> last.question,
                answer |-> last.answer,
                verdict |-> evaluate_answer(Questions[last.question],
                                            last.answer)]
    /\ UNCHANGED <<reviewVars, now, user, attempts, xpLedger, jemLedger, workers,
                   progressVars>>

NextEval == Evaluate

SpecEval == InitEval /\ [][NextEval]_vars

\* ===================================================== question submission
\* the answer does not have the shape the question's variant expects
Malformed(q, answer) ==
    CASE q.type = "multiple_choice" ->
            \/ answer.t # "list"
            \/ /\ answer.t = "list"
               /\ \/ \E i \in 1..Len(answer.v) : IntOf(answer.v[i]) = NULL
                  \/ ~q.is_multiple_selection /\ Len(answer.v) > 1
      [] q.type = "reorder" -> answer.t # "list"
      [] q.type = "fill_blank" -> answer.t # "dict"
      [] q.type = "drag_drop" -> answer.t # "dict"

\* C1: the reward of a submission is (0, 0) when incorrect, the full base
\* amounts (xp_available, jems) when correct with no prior attempt of the
\* key, and (max(10, xp_available div (prior+1)), max(1, jems div (prior+1)))
\* when correct with prior > 0 attempts; with base XP 50 and correct choices
\* {2,5}, [5,2] first earns 50 and the resubmission [2,5] earns 25.
C1_RewardFormula ==
    (last.op = "submit" /\ last.status = 200) =>
        LET q == Questions[last.question]
            row == attempts[Len(attempts)]
            prior == attempt_count(attempts, last.question, last.lesson) - 1
            xp == last.xp_earned
            jems == row.jems_earned
        IN /\ row.question = last.question /\ row.lesson = last.lesson
           /\ row.is_correct = last.is_correct
           /\ ~row.is_correct => xp = 0 /\ jems = 0
           /\ (row.is_correct /\ prior = 0) =>
                    xp = q.xp_available /\ jems = q.jems
           /\ (row.is_correct /\ prior > 0) =>
                    /\ xp = Max(10, q.xp_available \div (prior + 1))
                    /\ jems = Max(1, q.jems \div (prior + 1))
           /\ (last.question = "q1" /\ prior = 0
                 /\ last.answer = JList(<<Num("5"), Num("2")>>)) =>
                    row.is_correct /\ xp = 50
           /\ (last.question = "q1" /\ prior = 1
                 /\ last.answer = JList(<<Num("2"), Num("5")>>)) =>
                    row.is_correct /\ xp = 25
           /\ row.is_correct =>
                    /\ xp > 0 => xpLedger[Len(xpLedger)].amount = xp
                    /\ jems > 0 => jemLedger[Len(jemLedger)].amount = jems

\* the resubmission [2,5] after the first submission [5,2] was stored
C1_Witness ==
    /\ last.op = "submit" /\ last.question = "q1"
    /\ last.answer = JList(<<Num("2"), Num("5")>>)
    /\ Len(attempts) = 2
    /\ attempts[1].question = "q1" /\ attempts[1].is_correct
    /\ attempts[2].question = "q1" /\ attempts[2].attempt_number = 2
    /\ last.xp_earned = 25

\* C2: for every (user, question, lesson) key the attempt numbers stored are
\* exactly 1..K for the K attempts stored, also when submissions overlap.
C2_AttemptNumbersGapless ==
    \A qid \in QuestionIds, lid \in SubmitLessonIds :
        {attempts[i].attempt_number :
            i \in {j \in 1..Len(attempts) :
                      attempts[j].question = qid /\ attempts[j].lesson = lid}}
        = 1..attempt_count(attempts, qid, lid)

\* C3: a submission whose answer is malformed for the question's variant is
\* rejected with an error distinct from a wrong answer and writes nothing.
C3_MalformedWritesNothing ==
    [][\A qid \in QuestionIds, lid \in SubmitLessonIds :
         \A answer \in SubmitAnswers(qid) :
            (QuestionSubmit(qid, lid, answer)
                /\ Malformed(Questions[qid], answer)) =>
                    /\ last'.status = 400
                    /\ UNCHANGED <<attempts, xpLedger, jemLedger, user>>]_vars

\* C6: a submitted list of choice ids is judged correct exactly when its set
\* of ids equals the set of ids of the choices flagged correct (order is
\* irrelevant, repeated ids count once, proper subsets and supersets fail).
C6_MultipleChoiceSetEquality ==
    (/\ last.op = "eval"
     /\ Questions[last.question].type = "multiple_choice"
     /\ last.answer.t = "list"
     /\ \A i \in 1..Len(last.answer.v) : IntOf(last.answer.v[i]) # NULL) =>
        (last.verdict.ok <=>
            {IntOf(last.answer.v[i]) : i \in 1..Len(last.answer.v)}
            = {c.id : c \in {c \in Questions[last.question].choices :
                                c.is_correct}})

\* C7: the streak update of a correct submission follows the last-activity
\* timestamp the user had before the submission: none -> 1, one day before
\* today -> +1, more than one day -> 1, today -> unchanged.
C7_StreakFromPriorActivity ==
    [][\A qid \in QuestionIds, lid \in SubmitLessonIds :
         \A answer \in SubmitAnswers(qid) :
            (QuestionSubmit(qid, lid, answer) /\ last'.is_correct) =>
                user'.streak_days =
                    IF user.last_activity = NULL THEN 1
                    ELSE IF now - user.last_activity = 1
                         THEN user.streak_days + 1
                    ELSE IF now - user.last_activity > 1 THEN 1
                    ELSE user.streak_days]_vars

\* =========================================================== progress chain
\* the UserXP rows of one source
XpRowsOf(source_type, object_id) ==
    SelectSeq(xpLedger, LAMBDA r : r.source_type = source_type
                                      /\ r.object_id = object_id)

\* the lessons of a course that have a completion timestamp in the rows lp
CompletedLessons(c, lp) ==
    {l \in LessonIds : /\ Lessons[l].course = c
                       /\ lp[l].exists
                       /\ lp[l].completed_date # NULL}

PublishedLessons(c) ==
    {l \in LessonIds : Lessons[l].course = c /\ Lessons[l].is_published}

\* C4: for every lesson at most one lesson-completion XP transaction exists
\* and the lesson-source XP awarded for it never exceeds lesson.xp_available,
\* across any sequence of the slide-progress and lesson-progress operations.
C4_LessonBonusAtMostOnce ==
    \A l \in LessonIds :
        /\ Len(XpRowsOf("lesson", l)) <= 1
        /\ SumAmounts(XpRowsOf("lesson", l)) <= Lessons[l].xp_available

\* C5: the user's cached total_xp equals the sum of the amounts of the
\* user's XP transactions in every reachable state.
C5_TotalXpEqualsLedger ==
    user.total_xp = SumAmounts(xpLedger)

\* C8: a slide-completion request succeeds whether or not a progress record
\* exists beforehand, leaves the record of the pair marked complete, and
\* repeated after completion keeps the completion state and the reward.
C8_SlideCompletionUpsert ==
    [][\A s \in FocusSlides :
         SlideProgressCreate(Slides[s].lesson, s, SlideBodies[1]) =>
            /\ last'.status = 201
            /\ slideProgress'[s].exists
            /\ slideProgress'[s].is_completed
            /\ (slideProgress[s].exists /\ slideProgress[s].is_completed) =>
                    slideProgress'[s] = slideProgress[s]]_vars

\* C9: after a lesson-complete request that marks a lesson complete, the
\* enrollment completion_percentage of the lesson's course equals
\* 100 * completedLessons / totalPublishedLessons, the lesson just
\* completed included.
C9_EnrollmentPercentage ==
    [][\A l \in LessonIds :
         LET c == Lessons[l].course
         IN (/\ LessonComplete(l)
             /\ lessonProgress[l].completed_date = NULL
             /\ lessonProgress'[l].completed_date # NULL
             /\ enrollment'[c].exists) =>
                enrollment'[c].completion_percentage =
                    (100 * Cardinality(CompletedLessons(c, lessonProgress')))
                        \div Cardinality(PublishedLessons(c))]_vars

\* C10: when the user first has completed all published lessons of the
\* course the enrollment is marked is_completed and exactly one
\* course-completion XP transaction of 500 exists; is_completed never
\* reverts and no second course-completion transaction is created.
C10_CourseCompletionOnce ==
    [][\A c \in CourseIds :
         /\ (/\ enrollment[c].exists /\ enrollment'[c].exists
             /\ ~(PublishedLessons(c) \subseteq
                    CompletedLessons(c, lessonProgress))
             /\ PublishedLessons(c) \subseteq
                    CompletedLessons(c, lessonProgress')) =>
                /\ enrollment'[c].is_completed
                /\ Len(XpRowsOf("course", c))' = 1
                /\ SumAmounts(XpRowsOf("course", c))' = 500
         /\ (enrollment[c].is_completed /\ enrollment'[c].exists) =>
                enrollment'[c].is_completed
         /\ Len(XpRowsOf("course", c))' <= 1]_vars

\* C11: when a slide-completion request completes the last required slide of
\* a lesson, the same request marks the lesson complete at 100 percent,
\* awards its bonus and recomputes the enrollment of the lesson's course, so
\* that the enrollment percentage is up to date when the request returns.
C11_SynchronousPropagation ==
    [][\A s \in SlideIds :
         LET l == Slides[s].lesson
             c == Lessons[l].course
         IN (/\ SlideProgressCreate(l, s, [is_completed |-> TRUE])
             /\ RequiredSlides(l) # CompletedRequiredSlides(l, slideProgress)
             /\ RequiredSlides(l) = CompletedRequiredSlides(l, slideProgress')
             /\ enrollment[c].exists) =>
                /\ lessonProgress'[l].exists
                /\ lessonProgress'[l].completion_percentage = 100
                /\ lessonProgress'[l].completed_date # NULL
                /\ Len(XpRowsOf("lesson", l))' = 1
                /\ enrollment'[c].completion_percentage =
                    (100 * Cardinality(CompletedLessons(c, lessonProgress')))
                        \div Cardinality(PublishedLessons(c))]_vars

C13_SlideProgressMonotonic ==
    [][\A s \in SlideIds :
         (slideProgress[s].exists /\ slideProgress'[s].exists) =>
            /\ slideProgress[s].is_completed => slideProgress'[s].is_completed
            /\ slideProgress'[s].xp_earned >= slideProgress[s].xp_earned
            /\ (~slideProgress[s].is_completed
                    /\ slideProgress'[s].is_completed) =>
                  slideProgress'[s].completed_at # NULL
            /\ slideProgress[s].completed_at # NULL =>
                  slideProgress'[s].completed_at
                      = slideProgress[s].completed_at]_vars

\* C14: in every reachable state in which a lesson progress record exists
\* and the lesson has at least one required slide, completion_percentage
\* equals 100 * completed required slides / required slides, and so lies
\* in [0, 100].
C14_LessonPercentageDerived ==
    \A l \in LessonIds :
        (lessonProgress[l].exists /\ RequiredSlides(l) # {}) =>
            /\ lessonProgress[l].completion_percentage =
                (100 * Cardinality(CompletedRequiredSlides(l, slideProgress)))
                    \div Cardinality(RequiredSlides(l))
            /\ lessonProgress[l].completion_percentage \in 0..100

\* the number of LessonReviewQuestionAttempt rows of review r in the table ra
ReviewAnswered(r, ra) ==
    Cardinality({i \in 1..Len(ra) : ra[i].review = r})

\* C15: for every review, completion_time is stamped and the review XP
\* transaction is created when the number of answered questions first
\* reaches total_possible, and at most once: later submissions to the same
\* review neither change completion_time nor create another review XP
\* transaction.
C15_ReviewCompletesOnce ==
    [][\A r \in 1..Len(reviews) :
         /\ (/\ ReviewAnswered(r, reviewAttempts) < reviews[r].total_possible
             /\ ReviewAnswered(r, reviewAttempts')
                    >= reviews[r].total_possible) =>
                /\ reviews'[r].completion_time # NULL
                /\ Len(XpRowsOf("review", r))' = 1
         /\ reviews[r].completion_time # NULL =>
                reviews'[r].completion_time = reviews[r].completion_time
         /\ Len(XpRowsOf("review", r))' <= 1]_vars

\* C16: a question submission is all-or-nothing: if any of its writes fails
\* (attempt insert, XP or Jem transaction insert, update of the totals and
\* last activity, streak update), no attempt, no reward transaction and no
\* change of the user record from that submission is visible afterwards.
C16_SubmissionAllOrNothing ==
    [][(/\ last'.op = "submit"
        /\ last'.status = 500
        /\ last' # last) =>
            UNCHANGED <<attempts, xpLedger, jemLedger, user>>]_vars

\* a correct submission whose last write, the streak update, failed after
\* the attempt, both transactions and the totals had been written
C16_Witness ==
    /\ last.op = "submit"
    /\ last.status = 500
    /\ last.question = "q1"
    /\ "failed_write" \in DOMAIN last
    /\ last.failed_write = "streak"

\* C17: when two correct submissions of the same user were in progress
\* concurrently, after both commit the cached total_xp and jems have grown
\* by the sum of the two rewards: neither update of the totals overwrites
\* the other's.
C17_ConcurrentTotals ==
    (InFlight = {}) =>
        /\ user.total_xp = InitUser.total_xp + SumAmounts(xpLedger)
        /\ user.jems = InitUser.jems + SumAmounts(jemLedger)

\* ============================================================ evaluation
\* the submitted pairs of a JSON object whose values are all strings
StringValued(answer) ==
    /\ answer.t = "dict"
    /\ \A i \in 1..Len(answer.v) :
            answer.v[i][2].t = "atom" /\ ~answer.v[i][2].v.num

\* C18: for a fill-blank submission (blank index -> string), an index absent
\* from the answer key gives a validation failure; otherwise the answer is
\* correct iff every submitted blank matches an accepted string of its
\* index; blanks not submitted are not evaluated, so a correct subset of the
\* blanks, the empty mapping included, is judged correct.
C18_FillBlankSubmittedBlanks ==
    (/\ last.op = "eval"
     /\ Questions[last.question].type = "fill_blank"
     /\ StringValued(last.answer)) =>
        LET q == Questions[last.question]
            items == last.answer.v
            key == get_correct_answers(q)
            matches(i) ==
                LET accepted == key[ParseInt(items[i][1])]
                    text == items[i][2].v.s
                IN IF q.case_sensitive THEN text \in accepted
                   ELSE \E a \in accepted : Lower(a) = Lower(text)
        IN /\ ~last.verdict.raised
           /\ IF \E i \in 1..Len(items) : ParseInt(items[i][1]) \notin DOMAIN key
              THEN /\ ~last.verdict.ok
                   /\ last.verdict.message \in
                        {"Invalid blank index", "Invalid blank index format"}
              ELSE last.verdict.ok <=> \A i \in 1..Len(items) : matches(i)

\* the empty mapping, and a correct subset of the blanks, judged correct
C18_Witness ==
    /\ last.op = "eval"
    /\ last.question = "q3"
    /\ last.answer \in {JDict(<<>>),
                        JDict(<< <<"1", JAtom(Str("roma"))>> >>)}
    /\ last.verdict.ok

\* C19: a submitted string is compared with the accepted strings of its
\* blank ignoring letter case when case_sensitive is false ("Paris" matches
\* the stored "paris") and by exact equality when it is true ("Paris" does
\* not match the stored "paris").
C19_FillBlankCaseRule ==
    (/\ last.op = "eval"
     /\ Questions[last.question].type = "fill_blank"
     /\ StringValued(last.answer)
     /\ Len(last.answer.v) = 1
     /\ ParseInt(last.answer.v[1][1])
            \in DOMAIN get_correct_answers(Questions[last.question])) =>
        LET q == Questions[last.question]
            accepted ==
                get_correct_answers(q)[ParseInt(last.answer.v[1][1])]
            text == last.answer.v[1][2].v.s
            \* the spellings of the catalog that differ only in letter case
            same_letters(a, b) ==
                \/ a = b
                \/ {a, b} \subseteq {"paris", "Paris", "PARIS"}
                \/ {a, b} \subseteq {"rome", "Rome"}
                \/ {a, b} \subseteq {"roma", "Roma"}
        IN /\ ~q.case_sensitive =>
                (last.verdict.ok <=> \E a \in accepted : same_letters(a, text))
           /\ q.case_sensitive => (last.verdict.ok <=> text \in accepted)
           /\ (text = "Paris" /\ accepted = {"paris"}) =>
                (last.verdict.ok <=> ~q.case_sensitive)

\* "Paris" submitted for the blank that stores "paris": accepted by the
\* case-insensitive question
C19_Witness ==
    /\ last.op = "eval"
    /\ last.question = "q3"
    /\ last.answer = JDict(<< <<"0", JAtom(Str("Paris"))>> >>)
    /\ last.verdict.ok

\* the same submission refused by the case-sensitive question
C19_WitnessSensitive ==
    /\ last.op = "eval"
    /\ last.question = "q6"
    /\ last.answer = JDict(<< <<"0", JAtom(Str("Paris"))>> >>)
    /\ ~last.verdict.ok

\* the submitted pairs of a JSON object whose values are all lists
ListValued(answer) ==
    /\ answer.t = "dict"
    /\ \A i \in 1..Len(answer.v) : answer.v[i][2].t = "list"

\* C20: for a drag-drop submission (target id -> draggable item ids), a
\* submitted target id absent from the key gives a validation failure;
\* otherwise the answer is correct iff, for every submitted target, every
\* listed item is among that target's valid items; one invalid placement
\* makes the answer incorrect and targets not submitted are not evaluated.
C20_DragDropSubmittedTargets ==
    (/\ last.op = "eval"
     /\ Questions[last.question].type = "drag_drop"
     /\ ListValued(last.answer)) =>
        LET q == Questions[last.question]
            items == last.answer.v
            valid(tgt) ==
                {FormatInt(q.mappings[i].draggable_item) :
                    i \in {j \in 1..Len(q.mappings) :
                              FormatInt(q.mappings[j].target) = tgt}}
            targets == {FormatInt(q.mappings[i].target) :
                            i \in 1..Len(q.mappings)}
        IN /\ ~last.verdict.raised
           /\ IF \E i \in 1..Len(items) : items[i][1] \notin targets
              THEN /\ ~last.verdict.ok
                   /\ last.verdict.message = "Invalid target ID"
              ELSE last.verdict.ok <=>
                     \A i \in 1..Len(items) :
                        \A k \in 1..Len(items[i][2].v) :
                            items[i][2].v[k].s \in valid(items[i][1])

\* one target placed correctly and one holding an item of the other target:
\* judged incorrect
C20_Witness ==
    /\ last.op = "eval"
    /\ last.question = "q4"
    /\ last.answer = JDict(<< <<"11", JList(<<Num("22")>>)>>,
                              <<"10", JList(<<Num("20"), Num("22")>>)>> >>)
    /\ ~last.verdict.ok
    /\ last.verdict.message = "Incorrect. Try again!"

\* a correct placement for one target only: judged correct
C20_WitnessSubset ==
    /\ last.op = "eval"
    /\ last.question = "q4"
    /\ last.answer = JDict(<< <<"10", JList(<<Num("20")>>)>> >>)
    /\ last.verdict.ok

\* ------------------------------------------------------------------ C21
\* C21: a submitted sequence is judged correct by the reorder evaluator
\* exactly when it has as many elements as the question has items and its
\* i-th element is the id of the item with the i-th smallest
\* correct_position; the stored order is accepted, every other sequence over
\* the item ids is rejected.
RankOf(items, it) ==
    Cardinality({y \in items : y.correct_position < it.correct_position}) + 1

C21_ReorderExactSequence ==
    (/\ last.op = "eval"
     /\ Questions[last.question].type = "reorder"
     /\ last.answer.t = "list")
    => LET items == Questions[last.question].reorder_items
           v == last.answer.v
       IN last.verdict.ok
            <=> /\ Len(v) = Cardinality(items)
                /\ \A it \in items :
                      StrOf(v[RankOf(items, it)]) = FormatInt(it.id)

\* the stored order 32, 31, 33 was submitted and accepted
C21_Witness ==
    /\ last.op = "eval"
    /\ last.question = "q5"
    /\ last.answer = JList(<<Num("32"), Num("31"), Num("33")>>)
    /\ last.verdict.ok

\* a permutation of the same ids in another order was submitted and rejected
C21_WitnessPermutation ==
    /\ last.op = "eval"
    /\ last.question = "q5"
    /\ last.answer = JList(<<Num("31"), Num("32"), Num("33")>>)
    /\ ~last.verdict.ok
    /\ last.verdict.message = "Incorrect sequence. Try again!"

\* ------------------------------------------------------------------ C22
\* the user's progress record for lesson l exists and is at 80 percent or more
ReviewEligible(l) ==
    /\ Lessons[l].is_published
    /\ lessonProgress[l].exists
    /\ lessonProgress[l].completion_percentage >= 80

\* C22: a review of a lesson is created only by a start request for a
\* published lesson whose progress record exists at 80 percent or more; a
\* start request without such a record answers with an error status and
\* leaves the reviews as they were.
C22_StartReviewEligibility ==
    [][/\ Len(reviews') > Len(reviews)
          => /\ Len(reviews') = Len(reviews) + 1
             /\ ReviewEligible(reviews'[Len(reviews')].lesson)
       /\ \A l \in LessonIds :
            (StartReview(l) /\ ~ReviewEligible(l))
                => /\ reviews' = reviews
                   /\ last'.status \in {400, 404}]_vars

\* a review of l1 was started with the lesson at 100 percent
C22_Witness ==
    /\ last.op = "start_review"
    /\ last.status = 200
    /\ Len(reviews) = 1
    /\ reviews[1].lesson = "l1"
    /\ lessonProgress["l1"].completion_percentage >= 80

\* a start request was refused with the lesson at 50 percent
C22_WitnessRefused ==
    /\ last.op = "start_review"
    /\ last.status = 400
    /\ lessonProgress["l1"].exists
    /\ lessonProgress["l1"].completion_percentage = 50
    /\ reviews = <<>>

\* ------------------------------------------------------------------ C23
\* review i of lesson l has no completion_time
ReviewInProgress(l) ==
    \E i \in 1..Len(reviews) :
        /\ reviews[i].lesson = l
        /\ reviews[i].completion_time = NULL

\* C23: a start request for a lesson of which the user has a review without
\* completion_time is refused with status 400 and creates no review.
C23_NoSecondReviewInProgress ==
    [][\A l \in LessonIds :
            (StartReview(l) /\ ReviewInProgress(l))
                => /\ reviews' = reviews
                   /\ last'.status = 400]_vars

\* ------------------------------------------------------------------ C24
\* C24: a submission whose question id has no Question row, or whose lesson
\* id has no Lesson row, is answered with status 404 and leaves the attempts,
\* both ledgers and the user unchanged.
C24_MissingIdsNotFound ==
    [][/\ \A qid \in MissingQuestionIds,
             lid \in SubmitLessonIds \cup MissingLessonIds :
            \A answer \in LookupAnswers :
                QuestionSubmitMissingQuestion(qid, lid, answer)
                => /\ last'.status = 404
                   /\ UNCHANGED <<attempts, xpLedger, jemLedger, user>>
       /\ \A qid \in QuestionIds, lid \in MissingLessonIds :
            \A answer \in ConcAnswers(qid), fk_enforced \in BOOLEAN :
                QuestionSubmitMissingLesson(qid, lid, answer, fk_enforced)
                => /\ last'.status = 404
                   /\ UNCHANGED <<attempts, xpLedger, jemLedger,
                                  user>>]_vars

\* ------------------------------------------------------------------ C25
\* C25: a submission of the shape its question expects, answered with
\* status 200 (every step of the submission flow that is not a clock tick is
\* a submission), appends exactly one attempt. Judged incorrect, the
\* attempt has is_correct false and reward 0 and both ledgers and the user
\* (total_xp, jems, last_activity, streak_days) are unchanged. Judged
\* correct, the XP ledger gains one row of the earned amount when that amount
\* is positive and no row otherwise, and likewise the Jem ledger.
C25_SubmissionFrame ==
    [][(/\ now' = now
        /\ last'.op = "submit"
        /\ last'.status = 200
        /\ ~Malformed(Questions[last'.question], last'.answer))
       => LET row == attempts'[Len(attempts')]
              xp == last'.xp_earned
              jems == last'.jems_earned
              tx(amount) == [amount |-> amount,
                             source_type |-> "question",
                             object_id |-> last'.question]
          IN /\ attempts' = Append(attempts, row)
             /\ row.question = last'.question
             /\ row.is_correct = last'.is_correct
             /\ row.jems_earned = jems
             /\ IF ~last'.is_correct
                THEN /\ xp = 0 /\ jems = 0
                     /\ UNCHANGED <<xpLedger, jemLedger, user>>
                ELSE /\ xpLedger' = IF xp > 0
                                    THEN Append(xpLedger, tx(xp))
                                    ELSE xpLedger
                     /\ jemLedger' = IF jems > 0
                                     THEN Append(jemLedger, tx(jems))
                                     ELSE jemLedger]_vars

\* an incorrect answer of the expected shape was stored after an earlier
\* reward, which it left in place
C25_Witness ==
    /\ last.op = "submit"
    /\ last.status = 200
    /\ ~last.is_correct
    /\ ~Malformed(Questions[last.question], last.answer)
    /\ attempts[Len(attempts)].is_correct = FALSE
    /\ xpLedger # <<>>
    /\ user.total_xp > 0
    /\ user.last_activity # NULL

\* a correct answer to the question with 0 jems earned XP and no Jem row
C25_WitnessZeroJems ==
    /\ last.op = "submit"
    /\ last.status = 200
    /\ last.is_correct
    /\ last.jems_earned = 0
    /\ last.xp_earned > 0
    /\ jemLedger = <<>>
    /\ xpLedger # <<>>

\* ------------------------------------------------------------------ C26
\* C26: when slide-progress and lesson-complete requests for the same lesson
\* overlap, the lesson has at most one lesson-source XP transaction, the
\* amounts of these transactions sum to at most xp_available, and the
\* xp_earned of the progress row is at most xp_available.
C26_ConcurrentCompletionOnce ==
    \A l \in FocusLessons :
        /\ Len(XpRowsOf("lesson", l)) <= 1
        /\ SumAmounts(XpRowsOf("lesson", l)) <= Lessons[l].xp_available
        /\ lessonProgress[l].xp_earned <= Lessons[l].xp_available

\* ------------------------------------------------------------------ C27
\* C27: the rewards of the successive correct attempts of a question never
\* increase and never exceed the question's base amounts: every question XP
\* transaction is at most xp_available and at most every earlier one of the
\* same question, and likewise every question Jem transaction against jems.
C27_RewardNonIncreasing ==
    /\ \A j \in 1..Len(xpLedger) :
          xpLedger[j].source_type = "question"
          => /\ xpLedger[j].amount
                    <= Questions[xpLedger[j].object_id].xp_available
             /\ \A i \in 1..(j - 1) :
                    (/\ xpLedger[i].source_type = "question"
                     /\ xpLedger[i].object_id = xpLedger[j].object_id)
                    => xpLedger[j].amount <= xpLedger[i].amount
    /\ \A j \in 1..Len(jemLedger) :
          jemLedger[j].source_type = "question"
          => /\ jemLedger[j].amount
                    <= Questions[jemLedger[j].object_id].jems
             /\ \A i \in 1..(j - 1) :
                    (/\ jemLedger[i].source_type = "question"
                     /\ jemLedger[i].object_id = jemLedger[j].object_id)
                    => jemLedger[j].amount <= jemLedger[i].amount

\* ------------------------------------------------------------------ C28
\* the attempts of the key of the last submission stored before it
EarlierAttempts ==
    {i \in 1..(Len(attempts) - 1) :
        /\ attempts[i].question = last.question
        /\ attempts[i].lesson = last.lesson}

\* C28: incorrect attempts count in the decay divisor: a correct submission
\* whose key has k >= 1 stored attempts, all of them incorrect, earns
\* max(10, xp_available div (k+1)) XP and max(1, jems div (k+1)) jems.
C28_IncorrectAttemptsDecay ==
    (/\ last.op = "submit"
     /\ last.status = 200
     /\ last.is_correct
     /\ EarlierAttempts # {}
     /\ \A i \in EarlierAttempts : ~attempts[i].is_correct)
    => LET k == Cardinality(EarlierAttempts)
           q == Questions[last.question]
       IN /\ last.xp_earned = Max(10, q.xp_available \div (k + 1))
          /\ last.jems_earned = Max(1, q.jems \div (k + 1))
          /\ attempts[Len(attempts)].jems_earned = last.jems_earned
          /\ attempts[Len(attempts)].attempt_number = k + 1

\* the first correct answer to q1 (50 XP, 10 jems) after two incorrect ones
\* earned 16 XP and 3 jems
C28_Witness ==
    /\ last.op = "submit"
    /\ last.question = "q1"
    /\ last.is_correct
    /\ Len(attempts) = 3
    /\ Cardinality(EarlierAttempts) = 2
    /\ \A i \in EarlierAttempts : ~attempts[i].is_correct
    /\ last.xp_earned = 16
    /\ last.jems_earned = 3

\* ------------------------------------------------------------------ C29
\* C29: the is_correct stored by a review submission equals the verdict of
\* the shared evaluator on the same question and answer, for the questions
\* of every variant.
C29_ReviewUsesSharedEvaluator ==
    [][\A r \in 1..MaxReviews, qs \in QuestionSlideIds :
        \A user_answer \in ReviewAnswers(qs) :
            (/\ ReviewSubmit(r, qs, user_answer)
             /\ Len(reviewAttempts') = Len(reviewAttempts) + 1)
            => reviewAttempts'[Len(reviewAttempts')].is_correct
                = evaluate_answer(Questions[QuestionSlides[qs].question],
                                  user_answer).ok]_vars

\* ------------------------------------------------------------------ C30
\* C30: for every review, the number of recorded answers is at most
\* total_possible, the score is between 0 and total_possible, and
\* completion_percentage equals 100 * answers / total_possible and lies
\* between 0 and 100.
C30_ReviewBounds ==
    \A r \in 1..Len(reviews) :
        LET answered == ReviewAnswered(r, reviewAttempts)
            review == reviews[r]
        IN /\ answered <= review.total_possible
           /\ 0 <= review.score
           /\ review.score <= review.total_possible
           /\ review.completion_percentage
                = (100 * answered) \div review.total_possible
           /\ review.completion_percentage \in 0..100

====
